---- MODULE Spec2Model ----
(***************************************************************************)
(* Model of the editable session of freya's hooks crate (use_editable.rs): *)
(* three listener tasks (pointer, layout response, keyboard) draining      *)
(* three unbounded channels over one RopeEditor, the CursorReference they  *)
(* share with the layout engine, and the relayout requests sent to the     *)
(* host event loop.  A second part models the focus managers of           *)
(* use_focus.rs over the shared focused id and id counter.                 *)
(*                                                                         *)
(* Each listener body between two recv().await points has no await of its  *)
(* own and the tasks capture Rc values, so they run on one local executor: *)
(* one loop iteration is one atomic action.                                *)
(*                                                                         *)
(* Option<T> is a sequence of length 0 (None) or 1 (Some).  A rope is a    *)
(* sequence of one-character strings; NL is the line terminator.           *)
(* Pointer coordinates are counted in half units, so that the f64 -> usize *)
(* truncation of to_usize() is visible.                                    *)
(***************************************************************************)
EXTENDS Integers, Sequences, FiniteSets, TLC

\* ---------------------------------------------------------------- bounds
MaxLen == 2          \* longest rope the keyboard may build
MaxPos == 3          \* largest char offset a CursorPosition may carry
MaxSel == 1          \* largest char offset a TextSelection may carry
MaxId == 1           \* largest editor id a pointer event may carry
MaxCoord == 3        \* largest pointer coordinate, in half units
MaxQueue == 1        \* messages in flight per channel
MaxSends == 3        \* pointer events and keys the component will send
MaxResolveLen == 5   \* longest rope of the resolution specification
MaxResolvePos == 6   \* largest offset of the resolution specification
MaxResolveId == 3    \* largest editor id of the resolution specification
MaxDragSends == 4    \* pointer events and keys of the drag specification
MaxDrain == 3        \* messages in flight of the draining specification
MaxTypePos == 11     \* largest offset of the click-then-type specification
MaxNodes == 4        \* use_focus calls of the focus specification
MaxCounterStart == 2 \* ids drawn from the counter before the first of them

\* ---------------------------------------------------------------- values
None == <<>>
Some(v) == <<v>>
IsSome(o) == o # <<>>
Unwrap(o) == o[1]

NL == "\n"
Chars == {"a", NL}

SingleLineMultipleEditors == "SingleLineMultipleEditors"
MultipleLinesSingleEditor == "MultipleLinesSingleEditor"
EditableMode == {SingleLineMultipleEditors, MultipleLinesSingleEditor}

Min(a, b) == IF a <= b THEN a ELSE b
Max(a, b) == IF a >= b THEN a ELSE b

RECURSIVE SeqsUpTo(_, _)
SeqsUpTo(S, n) ==
    IF n = 0 THEN {<<>>}
    ELSE LET shorter == SeqsUpTo(S, n - 1)
         IN  shorter \cup {Append(s, c) : s \in shorter, c \in S}

\* ------------------------------------------------------------------ rope
\* ropey::Rope as RopeEditor exposes it.  Offsets and line indices are
\* 0-based; a line includes its terminator.
LineBreaks(rope) == {i \in 1..Len(rope) : rope[i] = NL}

len_chars(rope) == Len(rope)

len_lines(rope) == 1 + Cardinality(LineBreaks(rope))

\* Defined for position <= len_chars; ropey panics beyond.
char_to_line(rope, position) ==
    Cardinality({i \in LineBreaks(rope) : i <= position})

\* Defined for line <= len_lines; one past the last line is len_chars.
line_to_char(rope, line) ==
    IF line = 0 THEN 0
    ELSE IF line >= len_lines(rope) THEN Len(rope)
    ELSE CHOOSE i \in LineBreaks(rope) :
            Cardinality({j \in LineBreaks(rope) : j <= i}) = line

\* Option<Line>: None when line >= len_lines.
line(rope, row) ==
    IF row >= len_lines(rope) THEN None
    ELSE Some(SubSeq(rope, line_to_char(rope, row) + 1,
                     line_to_char(rope, row + 1)))

\* Line::len_chars, terminator included.
line_len_chars(l) == Len(l)

insert(rope, idx, chars) ==
    SubSeq(rope, 1, idx) \o chars \o SubSeq(rope, idx + 1, Len(rope))

\* remove(from..to)
remove(rope, from, to) ==
    SubSeq(rope, 1, from) \o SubSeq(rope, to + 1, Len(rope))

\* ---------------------------------------------------------------- editor
\* RopeEditor: rope, cursor (col, row) and the highlight range of each id
\* that has one (a function from those ids to their ranges).
NoHighlights == <<>>

from_string(text) ==
    [rope |-> text, col |-> 0, row |-> 0, highlights |-> NoHighlights]

cursor_as_tuple(ed) == <<ed.col, ed.row>>

unhighlight(ed) == [ed EXCEPT !.highlights = NoHighlights]

highlight_text(ed, from, to, id) ==
    [ed EXCEPT !.highlights =
        [i \in DOMAIN ed.highlights \cup {id} |->
            IF i = id THEN <<from, to>> ELSE ed.highlights[i]]]

highlights(ed, id) ==
    IF id \in DOMAIN ed.highlights THEN Some(ed.highlights[id]) ELSE None

cursor_idx(ed) == line_to_char(ed.rope, ed.row) + ed.col


\* TextEditor::process_key for the keys of KeyboardKeys: a printable key and
\* Enter insert at the cursor, Backspace removes the char before it (joining
\* with the line above at column 0), Delete removes the char after it.
\* An insert and every cursor movement collapse the highlights.
KeyboardKeys == {"a", "Enter", "Backspace", "Delete"}

\* Keys that insert their own character.
PrintableKeys == {"a", "X"}

InsertKeys == {"a", "Enter"}

\* ropey panics when the edit addresses a char past the end of the rope.
process_key_panics(ed, key) ==
    \/ ed.row >= len_lines(ed.rope)
    \/ cursor_idx(ed) > len_chars(ed.rope)

process_key(ed, key) ==
    LET idx == cursor_idx(ed)
    IN  CASE key \in PrintableKeys ->
               unhighlight([ed EXCEPT !.rope = insert(ed.rope, idx, <<key>>),
                                      !.col = ed.col + 1])
          [] key = "Enter" ->
               unhighlight([ed EXCEPT !.rope = insert(ed.rope, idx, <<NL>>),
                                      !.row = ed.row + 1,
                                      !.col = 0])
          [] key = "Backspace" ->
               IF ed.col > 0
               THEN unhighlight([ed EXCEPT !.rope = remove(ed.rope, idx - 1, idx),
                                           !.col = ed.col - 1])
               ELSE IF ed.row > 0
               THEN LET prev == Unwrap(line(ed.rope, ed.row - 1))
                    IN  unhighlight([ed EXCEPT
                            !.rope = remove(ed.rope, idx - 1, idx),
                            !.row = ed.row - 1,
                            !.col = line_len_chars(prev) - 1])
               ELSE ed
          [] key = "Delete" ->
               IF idx < len_chars(ed.rope)
               THEN [ed EXCEPT !.rope = remove(ed.rope, idx, idx + 1)]
               ELSE ed

\* ----------------------------------------------------------- conversions
\* Point2D<f64> coordinates in half units: 3 stands for 1.5.
Coords == {<<h, MaxCoord - h>> : h \in {0, MaxCoord}}

\* `coords.x as f32`: every coordinate of Coords is a multiple of 0.5 far
\* below 2^24 and is kept exactly by the narrowing.
as_f32(c) == <<c[1], c[2]>>

\* Point2D::to_usize().to_tuple(): the fraction is truncated; the result
\* counts whole units.
to_usize(c) == <<c[1] \div 2, c[2] \div 2>>

\* ------------------------------------------------------------- messages
MouseDown(c, id) == [kind |-> "MouseDown", coords |-> c, id |-> id]
MouseOver(c, id) == [kind |-> "MouseOver", coords |-> c, id |-> id]
Click == [kind |-> "Click"]

PointerIds == {0, MaxId}

EditableEvent ==
    {MouseDown(c, i) : c \in Coords, i \in PointerIds}
        \cup {MouseOver(c, i) : c \in Coords, i \in PointerIds}
        \cup {Click}

CursorPosition(position, id) ==
    [kind |-> "CursorPosition", position |-> position, id |-> id]

TextSelection(from, to, id) ==
    [kind |-> "TextSelection", from |-> from, to |-> to, id |-> id]

\* ----------------------------------------------------------------- state
VARIABLES
    mode,               \* EditableMode given to use_editable
    editor,             \* text_editor: UseState<RopeEditor>
    cursor_reference,   \* CursorReference: id, cursor_position, cursor_selections
    current_dragging,   \* pointer listener's local: Option<coords>
    click_channel,      \* EditableEvent messages in flight
    cursor_channels,    \* CursorLayoutResponse messages in flight
    keypress_channel,   \* KeyboardData messages in flight
    event_loop_proxy,   \* whether consume_context found an EventLoopProxy
    relayouts,          \* RequestRelayout messages pending in the event loop
    tasks,              \* state of each listener task
    mounted,            \* the component, its hooks and handles are alive
    budget,             \* messages the component will still send through
                        \* its notifiers
    accessibility_id_counter,   \* AccessibilityIdCounter context
    focused_id,         \* UseSharedState<AccessibilityId>
    navigation_state,   \* NavigatorState context
    focus_managers,     \* the UseFocus of every use_focus call, in call order
    last_call           \* the last focus() or unfocus() call, if any

editable_vars ==
    <<mode, editor, cursor_reference, current_dragging, click_channel,
      cursor_channels, keypress_channel, event_loop_proxy, relayouts,
      tasks, mounted, budget>>

focus_vars ==
    <<accessibility_id_counter, focused_id, navigation_state, focus_managers,
      last_call>>

vars == <<editable_vars, focus_vars>>

\* freya_core::accessibility::ACCESSIBILITY_ROOT_ID, the id of the root
\* node of the accessibility tree.
ACCESSIBILITY_ROOT_ID == 0

NavigationMode == {"Keyboard", "NotKeyboard"}

\* No use_focus call yet: nothing is focused.
NoFocusYet ==
    /\ focused_id = ACCESSIBILITY_ROOT_ID
    /\ focus_managers = <<>>
    /\ last_call = None

\* The focus state of an application whose components do not call use_focus.
NoFocus ==
    /\ accessibility_id_counter = 0
    /\ NoFocusYet
    /\ navigation_state = "NotKeyboard"

Listeners == {"click", "cursor", "keypress"}

\* Initial texts: the empty text, and an empty line with its terminator.
InitTexts == {<<>>, <<NL>>}

InitCommon ==
    /\ mode \in EditableMode
    /\ cursor_reference =
           [id |-> None, cursor_position |-> None, cursor_selections |-> None]
    /\ current_dragging = None
    /\ click_channel = <<>>
    /\ keypress_channel = <<>>
    /\ event_loop_proxy \in BOOLEAN
    /\ relayouts = 0
    /\ tasks = [t \in Listeners |-> "running"]
    /\ mounted = TRUE
    /\ NoFocus

Init ==
    /\ InitCommon
    /\ editor \in {from_string(t) : t \in InitTexts}
    /\ cursor_channels = <<>>
    /\ budget = MaxSends


\* -------------------------------------------------------------- channels
recv_newest_first(queue) ==
    <<queue[Len(queue)], SubSeq(queue, 1, Len(queue) - 1)>>

\* UnboundedReceiver::recv on a non-empty channel: the oldest message, and
\* the messages that stay in the channel.
recv(queue) == <<Head(queue), Tail(queue)>>

\* ------------------------------------------------------ pointer listener
dragging_after_keeps_drag_on_click(ev, dragging) ==
    CASE ev.kind = "MouseDown" -> Some(ev.coords)
      [] ev.kind = "MouseOver" -> dragging
      [] ev.kind = "Click" -> dragging

\* current_dragging after the match on the event.
dragging_after(ev, dragging) ==
    CASE ev.kind = "MouseDown" -> Some(ev.coords)
      [] ev.kind = "MouseOver" -> dragging
      [] ev.kind = "Click" -> None

cursor_reference_after_down_sets_selections(ev, dragging, cref) ==
    CASE ev.kind = "MouseDown" ->
           [cref EXCEPT !.id = Some(ev.id),
                        !.cursor_selections =
                            Some(<<to_usize(ev.coords), to_usize(ev.coords)>>)]
      [] ev.kind = "MouseOver" ->
           IF IsSome(dragging)
           THEN [cref EXCEPT !.id = Some(ev.id),
                             !.cursor_selections =
                                 Some(<<to_usize(Unwrap(dragging)),
                                        to_usize(ev.coords)>>)]
           ELSE cref
      [] ev.kind = "Click" -> cref

cursor_reference_after_over_ignores_drag(ev, dragging, cref) ==
    CASE ev.kind = "MouseDown" ->
           [cref EXCEPT !.id = Some(ev.id),
                        !.cursor_position = Some(as_f32(ev.coords))]
      [] ev.kind = "MouseOver" ->
           [cref EXCEPT !.id = Some(ev.id),
                        !.cursor_selections =
                            Some(<<to_usize(IF IsSome(dragging)
                                            THEN Unwrap(dragging)
                                            ELSE ev.coords),
                                   to_usize(ev.coords)>>)]
      [] ev.kind = "Click" -> cref

\* The CursorReference after the match on the event.
cursor_reference_after(ev, dragging, cref) ==
    CASE ev.kind = "MouseDown" ->
           [cref EXCEPT !.id = Some(ev.id),
                        !.cursor_position = Some(as_f32(ev.coords))]
      [] ev.kind = "MouseOver" ->
           IF IsSome(dragging)
           THEN [cref EXCEPT !.id = Some(ev.id),
                             !.cursor_selections =
                                 Some(<<to_usize(Unwrap(dragging)),
                                        to_usize(ev.coords)>>)]
           ELSE cref
      [] ev.kind = "Click" -> cref

editor_after_pointer_keeps_highlights(ev, ed) == ed

editor_after_pointer_click_unhighlights(ev, ed) ==
    IF ev.kind \in {"MouseDown", "Click"} THEN unhighlight(ed) ELSE ed

\* The editor after the match on the event.
editor_after_pointer(ev, ed) ==
    IF ev.kind = "MouseDown" THEN unhighlight(ed) ELSE ed

relayout_requests_whenever_proxy(dragging, proxy) ==
    IF proxy THEN 1 ELSE 0

\* Number of RequestRelayout messages sent after the match.
relayout_requests(dragging, proxy) ==
    IF IsSome(dragging) /\ proxy THEN 1 ELSE 0

\* One iteration of `while let Some(edit_event) = rx.recv().await`; recv
\* yields None once the channel is empty and every ClickNotifier is dropped.
ClickListener ==
    /\ tasks["click"] = "running"
    /\ IF click_channel # <<>>
       THEN LET ev == recv(click_channel)[1]
                dragging == dragging_after(ev, current_dragging)
            IN  /\ click_channel' = recv(click_channel)[2]
                /\ current_dragging' = dragging
                /\ cursor_reference' =
                       cursor_reference_after(ev, current_dragging,
                                              cursor_reference)
                /\ editor' = editor_after_pointer(ev, editor)
                /\ relayouts' =
                       relayouts + relayout_requests(dragging, event_loop_proxy)
                /\ UNCHANGED tasks
       ELSE /\ ~mounted
            /\ tasks' = [tasks EXCEPT !["click"] = "done"]
            /\ UNCHANGED <<click_channel, current_dragging, cursor_reference,
                           editor, relayouts>>
    /\ UNCHANGED <<mode, cursor_channels, keypress_channel, event_loop_proxy,
                   mounted, budget>>
    /\ UNCHANGED focus_vars

\* ---------------------------------------------- layout-response listener
new_cursor_row_always_id(ed, m, position, id) == id

new_cursor_row(ed, m, position, id) ==
    IF m = MultipleLinesSingleEditor
    THEN char_to_line(ed.rope, position)
    ELSE id

new_cursor_col_always_linear(ed, m, position, id) ==
    position - line_to_char(ed.rope, new_cursor_row(ed, m, position, id))

new_cursor_col(ed, m, position, id) ==
    IF m = MultipleLinesSingleEditor
    THEN position - line_to_char(ed.rope, new_cursor_row(ed, m, position, id))
    ELSE position

\* char_to_line panics past the end of the rope; line(..).unwrap() panics
\* on a row that is not a line of the rope.
cursor_position_panics(ed, m, position, id) ==
    \/ m = MultipleLinesSingleEditor /\ position > len_chars(ed.rope)
    \/ line(ed.rope, new_cursor_row(ed, m, position, id)) = None

new_cursor_unclamped(ed, m, position, id) ==
    <<new_cursor_col(ed, m, position, id), new_cursor_row(ed, m, position, id)>>

\* (col, row), the column clamped to the length of the line.
new_cursor(ed, m, position, id) ==
    LET row == new_cursor_row(ed, m, position, id)
        col == new_cursor_col(ed, m, position, id)
        new_current_line == Unwrap(line(ed.rope, row))
    IN  IF col >= line_len_chars(new_current_line)
        THEN <<line_len_chars(new_current_line), row>>
        ELSE <<col, row>>

editor_after_cursor_position_always_updates(ed, m, position, id) ==
    LET nc == new_cursor(ed, m, position, id)
    IN  unhighlight([ed EXCEPT !.col = nc[1], !.row = nc[2]])

\* "Only update if it's actually different"
editor_after_cursor_position(ed, m, position, id) ==
    LET nc == new_cursor(ed, m, position, id)
    IN  IF cursor_as_tuple(ed) # nc
        THEN unhighlight([ed EXCEPT !.col = nc[1], !.row = nc[2]])
        ELSE ed

editor_after_text_selection_moves_cursor(ed, from, to, id) ==
    [highlight_text(ed, from, to, id) EXCEPT !.col = to]

editor_after_text_selection(ed, from, to, id) ==
    highlight_text(ed, from, to, id)

cursor_reference_cleared_position_only(cref) ==
    [cref EXCEPT !.cursor_position = None]

\* "Remove the current calcutions so the layout engine doesn't try to
\* calculate again"
cursor_reference_cleared(cref) ==
    [cref EXCEPT !.cursor_position = None, !.cursor_selections = None]

\* Holders of a sender of the layout-response channel: the hooks and handles
\* of the component, and each listener that captured a CursorReference.
agent_holders ==
    (IF mounted THEN {"component"} ELSE {})
        \cup {t \in {"click", "cursor"} : tasks[t] = "running"}

\* One iteration of `while let Some(message) = cursor_receiver.recv().await`.
CursorListener ==
    /\ tasks["cursor"] = "running"
    /\ IF cursor_channels # <<>>
       THEN LET message == recv(cursor_channels)[1]
            IN  /\ cursor_channels' = recv(cursor_channels)[2]
                /\ IF message.kind = "CursorPosition"
                   THEN IF cursor_position_panics(editor, mode,
                                                  message.position, message.id)
                        THEN /\ tasks' = [tasks EXCEPT !["cursor"] = "panicked"]
                             /\ UNCHANGED <<editor, cursor_reference>>
                        ELSE /\ editor' =
                                    editor_after_cursor_position(
                                        editor, mode,
                                        message.position, message.id)
                             /\ cursor_reference' =
                                    cursor_reference_cleared(cursor_reference)
                             /\ UNCHANGED tasks
                   ELSE /\ editor' =
                               editor_after_text_selection(
                                   editor, message.from, message.to, message.id)
                        /\ cursor_reference' =
                               cursor_reference_cleared(cursor_reference)
                        /\ UNCHANGED tasks
       ELSE /\ agent_holders = {}
            /\ tasks' = [tasks EXCEPT !["cursor"] = "done"]
            /\ UNCHANGED <<cursor_channels, editor, cursor_reference>>
    /\ UNCHANGED <<mode, current_dragging, click_channel, keypress_channel,
                   event_loop_proxy, relayouts, mounted, budget>>
    /\ UNCHANGED focus_vars

\* ----------------------------------------------------- keyboard listener
\* One iteration of `while let Some(pressed_key) = rx.recv().await`.
KeypressListener ==
    /\ tasks["keypress"] = "running"
    /\ IF keypress_channel # <<>>
       THEN LET pressed_key == recv(keypress_channel)[1]
            IN  /\ keypress_channel' = recv(keypress_channel)[2]
                /\ IF process_key_panics(editor, pressed_key)
                   THEN /\ tasks' = [tasks EXCEPT !["keypress"] = "panicked"]
                        /\ UNCHANGED editor
                   ELSE /\ editor' = process_key(editor, pressed_key)
                        /\ UNCHANGED tasks
       ELSE /\ ~mounted
            /\ tasks' = [tasks EXCEPT !["keypress"] = "done"]
            /\ UNCHANGED <<keypress_channel, editor>>
    /\ UNCHANGED <<mode, cursor_reference, current_dragging, click_channel,
                   cursor_channels, event_loop_proxy, relayouts, mounted,
                   budget>>
    /\ UNCHANGED focus_vars

\* ----------------------------------------------------------- environment
\* A component callback sends a pointer event, one of `events`, through
\* click_notifier.
SendEventOf(events) ==
    /\ mounted
    /\ Len(click_channel) < MaxQueue
    /\ budget > 0
    /\ \E ev \in events : click_channel' = Append(click_channel, ev)
    /\ budget' = budget - 1
    /\ UNCHANGED <<mode, editor, cursor_reference, current_dragging,
                   cursor_channels, keypress_channel, event_loop_proxy,
                   relayouts, tasks, mounted>>
    /\ UNCHANGED focus_vars

SendEvent == SendEventOf(EditableEvent)

PendingInserts ==
    Cardinality({i \in 1..Len(keypress_channel) :
                    keypress_channel[i] \in InsertKeys})

\* A component callback sends a key through keypress_notifier.
SendKey ==
    /\ mounted
    /\ Len(keypress_channel) < MaxQueue
    /\ budget > 0
    /\ budget' = budget - 1
    /\ \E key \in KeyboardKeys :
          /\ key \in InsertKeys =>
                 len_chars(editor.rope) + PendingInserts < MaxLen
          /\ keypress_channel' = Append(keypress_channel, key)
    /\ UNCHANGED <<mode, editor, cursor_reference, current_dragging,
                   click_channel, cursor_channels, event_loop_proxy,
                   relayouts, tasks, mounted>>
    /\ UNCHANGED focus_vars

\* A layout pass of the host: the layout engine takes the pending requests
\* of the CursorReference and emits through `agent` what it resolved them
\* to against the geometry it measured, a position being one of `offsets`.
LayoutResolve(offsets) ==
    /\ mounted
    /\ Len(cursor_channels) < MaxQueue
    /\ LET cref == cursor_reference
           positions ==
               IF IsSome(cref.id) /\ IsSome(cref.cursor_position)
               THEN {<<CursorPosition(position, Unwrap(cref.id))>> :
                        position \in offsets}
               ELSE {<<>>}
           selections ==
               IF IsSome(cref.id) /\ IsSome(cref.cursor_selections)
               THEN {<<TextSelection(from, to, Unwrap(cref.id))>> :
                        from \in {0, MaxSel}, to \in {0, MaxSel}}
               ELSE {<<>>}
       IN  /\ \E resolved \in positions, selected \in selections :
                 cursor_channels' = cursor_channels \o resolved \o selected
           /\ cursor_reference' =
                  IF IsSome(cref.id)
                  THEN [id |-> None, cursor_position |-> None,
                        cursor_selections |-> None]
                  ELSE cref
    /\ relayouts' = Max(relayouts - 1, 0)
    /\ UNCHANGED <<mode, editor, current_dragging, click_channel,
                   keypress_channel, event_loop_proxy, tasks, mounted, budget>>
    /\ UNCHANGED focus_vars

LayoutPass == LayoutResolve(0..MaxPos)

\* The component is unmounted: its hooks, every UseEditable handle and the
\* attributes handed to the layout engine are dropped.
Teardown ==
    /\ mounted
    /\ mounted' = FALSE
    /\ UNCHANGED <<mode, editor, cursor_reference, current_dragging,
                   click_channel, cursor_channels, keypress_channel,
                   event_loop_proxy, relayouts, tasks, budget>>
    /\ UNCHANGED focus_vars

\* The session while the component is mounted.
Next ==
    \/ ClickListener
    \/ CursorListener
    \/ KeypressListener
    \/ SendEvent
    \/ SendKey
    \/ LayoutPass

Spec == Init /\ [][Next]_vars

\* The session and its teardown.
NextOrTeardown ==
    \/ Next
    \/ Teardown

\* The executor polls every listener that has a message or a closed channel.
LiveSpec ==
    /\ Init
    /\ [][NextOrTeardown]_vars
    /\ WF_vars(ClickListener)
    /\ WF_vars(CursorListener)
    /\ WF_vars(KeypressListener)

TypeOK ==
    /\ mode \in EditableMode
    /\ mounted \in BOOLEAN
    /\ relayouts \in Nat
    /\ Len(click_channel) <= MaxQueue
    /\ Len(keypress_channel) <= MaxQueue
    /\ Len(cursor_channels) <= MaxQueue + 1
    /\ len_chars(editor.rope) <= MaxLen


\* ------------------------------------------- resolution of one response
\* One CursorPosition response in flight over a fresh editor of any text,
\* handled by the layout-response listener.
ExampleTexts == {<<"a", "b", "c", NL, "d", "e">>, <<"h", "i", NL, NL, "x", "y", "z">>}

ResolveTexts == SeqsUpTo(Chars, MaxResolveLen) \cup ExampleTexts

ResolveInit ==
    /\ InitCommon
    /\ editor \in {from_string(t) : t \in ResolveTexts}
    /\ \E position \in 0..MaxResolvePos, id \in 0..MaxResolveId :
          cursor_channels = <<CursorPosition(position, id)>>
    /\ budget = 0

ResolveSpec == ResolveInit /\ [][CursorListener]_vars

\* ------------------------------------------- a response over a selection
\* One CursorPosition response in flight over an editor that holds a
\* selection and whose cursor is anywhere in its text.
ReselectTexts == SeqsUpTo(Chars, MaxLen)

CursorsOf(text) ==
    {<<col, row>> : col \in 0..Len(text), row \in 0..Len(text)} \cap
        {c \in Nat \X Nat :
            /\ c[2] < len_lines(text)
            /\ c[1] <= line_len_chars(Unwrap(line(text, c[2])))}

ReselectInit ==
    /\ InitCommon
    /\ event_loop_proxy
    /\ \E text \in ReselectTexts :
          \E c \in CursorsOf(text), id \in PointerIds :
             editor = highlight_text(
                          [from_string(text) EXCEPT !.col = c[1], !.row = c[2]],
                          0, MaxSel, id)
    /\ \E position \in 0..MaxPos, id \in PointerIds :
          cursor_channels = <<CursorPosition(position, id)>>
    /\ budget = 0

ReselectSpec == ReselectInit /\ [][CursorListener]_vars

\* ------------------------------------------------------- a longer gesture
\* The session over one line, with a proxy at hand and enough pointer
\* events and keys for a drag of two moves and its release.
FullLine == [i \in 1..MaxLen |-> IF i = MaxLen THEN NL ELSE "a"]

DragInit ==
    /\ InitCommon
    /\ event_loop_proxy
    /\ editor = from_string(FullLine)
    /\ cursor_channels = <<>>
    /\ budget = MaxDragSends

\* The pointer events of a gesture over the editor of id 0.
DragEvents ==
    {MouseDown(c, 0) : c \in Coords} \cup {MouseOver(c, 0) : c \in Coords}
        \cup {Click}

DragSendEvent == SendEventOf(DragEvents)

\* The layout engine resolves a click to the start or to the far end.
DragLayoutPass == LayoutResolve({0, MaxPos})

DragNext ==
    \/ ClickListener
    \/ CursorListener
    \/ KeypressListener
    \/ DragSendEvent
    \/ SendKey
    \/ DragLayoutPass

DragSpec == DragInit /\ [][DragNext]_vars

\* ------------------------------------------------------- click then type
\* A MouseDown and a key are in flight over the text "hello", "world"; the
\* layout engine resolves the click to any offset up to MaxTypePos.
HelloWorld == <<"h", "e", "l", "l", "o", NL, "w", "o", "r", "l", "d">>

TypedKeys == {"X", "Enter", "Backspace"}

TypeInit ==
    /\ mode \in EditableMode
    /\ editor = from_string(HelloWorld)
    /\ cursor_reference =
           [id |-> None, cursor_position |-> None, cursor_selections |-> None]
    /\ current_dragging = None
    /\ \E c \in Coords, id \in PointerIds, key \in TypedKeys :
          /\ click_channel = <<MouseDown(c, id)>>
          /\ keypress_channel = <<key>>
    /\ cursor_channels = <<>>
    /\ event_loop_proxy \in BOOLEAN
    /\ relayouts = 0
    /\ tasks = [t \in Listeners |-> "running"]
    /\ mounted = TRUE
    /\ NoFocus
    /\ budget = 0

TypeLayoutPass == LayoutResolve(0..MaxTypePos)

TypeNext ==
    \/ ClickListener
    \/ TypeLayoutPass
    \/ CursorListener
    \/ KeypressListener

TypeSpec == TypeInit /\ [][TypeNext]_vars

\* ----------------------------------------------------------------- focus
\* use_focus.rs: the focus managers of the nodes of one application, over
\* the shared focused id, id counter and navigation mode.
counter_after_use_focus_without_increment(counter) == counter

\* `*counter += 1`
counter_after_use_focus(counter) == counter + 1

\* UseFocus: the id is AccessibilityId(*counter); focused_id and
\* navigation_state are handles to the shared values.
UseFocus(id) == [id |-> id]

focused_id_after_unfocus_of_self_only(self, focused) ==
    IF focused = self.id THEN ACCESSIBILITY_ROOT_ID ELSE focused

\* `*self.focused_id.write() = ACCESSIBILITY_ROOT_ID`
focused_id_after_unfocus(self, focused) == ACCESSIBILITY_ROOT_ID

\* `*self.focused_id.write() = self.id`
focused_id_after_focus(self, focused) == self.id

is_focused(self) == self.id = focused_id

is_selected(self) == is_focused(self) /\ navigation_state = "Keyboard"

KeyCodes == {"Enter", "Space"}

validate_keydown(self, code) == code = "Enter" /\ is_selected(self)

\* A component calls use_focus for the first time.
use_focus ==
    /\ Len(focus_managers) < MaxNodes
    /\ accessibility_id_counter' =
           counter_after_use_focus(accessibility_id_counter)
    /\ focus_managers' =
           Append(focus_managers, UseFocus(accessibility_id_counter'))
    /\ UNCHANGED <<focused_id, navigation_state, last_call>>
    /\ UNCHANGED editable_vars

focus ==
    \E n \in 1..Len(focus_managers) :
       /\ focused_id' = focused_id_after_focus(focus_managers[n], focused_id)
       /\ last_call' = Some([op |-> "focus", node |-> n])
       /\ UNCHANGED <<accessibility_id_counter, navigation_state,
                      focus_managers>>
       /\ UNCHANGED editable_vars

unfocus ==
    \E n \in 1..Len(focus_managers) :
       /\ focused_id' = focused_id_after_unfocus(focus_managers[n], focused_id)
       /\ last_call' = Some([op |-> "unfocus", node |-> n])
       /\ UNCHANGED <<accessibility_id_counter, navigation_state,
                      focus_managers>>
       /\ UNCHANGED editable_vars

\* The host switches the navigation mode: to Keyboard on Tab, away from it
\* on a pointer event.
NavigatorSet ==
    /\ \E m \in NavigationMode \ {navigation_state} : navigation_state' = m
    /\ UNCHANGED <<accessibility_id_counter, focused_id, focus_managers,
                   last_call>>
    /\ UNCHANGED editable_vars

\* No editable session: every variable of the session is at rest.
NoSession ==
    /\ mode = SingleLineMultipleEditors
    /\ editor = from_string(<<>>)
    /\ cursor_reference =
           [id |-> None, cursor_position |-> None, cursor_selections |-> None]
    /\ current_dragging = None
    /\ click_channel = <<>>
    /\ keypress_channel = <<>>
    /\ cursor_channels = <<>>
    /\ event_loop_proxy = TRUE
    /\ relayouts = 0
    /\ tasks = [t \in Listeners |-> "done"]
    /\ mounted = FALSE
    /\ budget = 0

\* Other hooks of the application may have drawn ids from the counter.
FocusInit ==
    /\ NoSession
    /\ accessibility_id_counter \in 0..MaxCounterStart
    /\ NoFocusYet
    /\ navigation_state \in NavigationMode

FocusNext ==
    \/ use_focus
    \/ focus
    \/ unfocus
    \/ NavigatorSet

FocusSpec == FocusInit /\ [][FocusNext]_vars

\* -------------------------------------------------- draining the channels
\* The three listeners draining messages that were sent while they were
\* parked: up to MaxDrain messages over the three channels.
DrainEvents == DragEvents

DrainResponses ==
    {CursorPosition(position, id) : position \in {0, MaxPos}, id \in PointerIds}
        \cup {TextSelection(from, to, 0) : from, to \in {0, MaxSel}}

DrainInit ==
    /\ mode \in EditableMode
    /\ editor = from_string(<<>>)
    /\ cursor_reference =
           [id |-> None, cursor_position |-> None, cursor_selections |-> None]
    /\ current_dragging = None
    /\ \E clicks \in 0..MaxDrain :
          \E keys \in 0..(MaxDrain - clicks) :
             \E responses \in 0..(MaxDrain - clicks - keys) :
                /\ click_channel \in [1..clicks -> DrainEvents]
                /\ keypress_channel \in [1..keys -> KeyboardKeys]
                /\ cursor_channels \in [1..responses -> DrainResponses]
    /\ event_loop_proxy = TRUE
    /\ relayouts = 0
    /\ tasks = [t \in Listeners |-> "running"]
    /\ mounted = TRUE
    /\ NoFocus
    /\ budget = 0

DrainNext ==
    \/ ClickListener
    \/ CursorListener
    \/ KeypressListener

DrainSpec == DrainInit /\ [][DrainNext]_vars

\* ----------------------------------------------------------------- steps
\* The pointer listener handled the event at the head of its channel.
ClickHandled ==
    /\ click_channel # <<>>
    /\ click_channel' = Tail(click_channel)

\* The layout-response listener received the message at the head of its
\* channel, and finished handling it.
CursorReceived ==
    /\ cursor_channels # <<>>
    /\ cursor_channels' = Tail(cursor_channels)

CursorHandled == CursorReceived /\ tasks'["cursor"] = "running"

\* The keyboard listener handled the key at the head of its channel.
KeypressHandled ==
    /\ keypress_channel # <<>>
    /\ keypress_channel' = Tail(keypress_channel)

MouseDownHandled == ClickHandled /\ Head(click_channel).kind = "MouseDown"

ReleaseHandled == ClickHandled /\ Head(click_channel).kind = "Click"

TextSelectionHandled ==
    CursorHandled /\ Head(cursor_channels).kind = "TextSelection"

MouseOverHandled == ClickHandled /\ Head(click_channel).kind = "MouseOver"

\* The layout engine emitted a response.
ResponseEmitted == Len(cursor_channels') > Len(cursor_channels)

\* Every editor id a message of the model can carry.
EditorIds == 0..(MaxId + 1)

\* Length of the line at `row`, terminator included.
LineLen(rope, row) == line_len_chars(Unwrap(line(rope, row)))

EndsWithTerminator(l) == l # <<>> /\ l[Len(l)] = NL

\* --------------------------------------------------------------- claims
\* C1: after each pointer event the listener sends RequestRelayout exactly
\* once if the drag flag is then set and a proxy is available, and not at
\* all otherwise: once for a MouseDown and for a MouseOver during a drag,
\* never for a Click or for a MouseOver outside a drag.
C1_RelayoutIffDragging ==
    [][ClickHandled =>
          LET ev == Head(click_channel)
              sent == relayouts' - relayouts
          IN  /\ sent \in {0, 1}
              /\ sent = 1 <=> (IsSome(current_dragging') /\ event_loop_proxy)
              /\ (ev.kind = "MouseDown" /\ event_loop_proxy) => sent = 1
              /\ (ev.kind = "MouseOver" /\ event_loop_proxy) =>
                     (sent = 1 <=> IsSome(current_dragging))
              /\ ev.kind = "Click" => sent = 0]_vars

\* A MouseOver of a drag has been handled and its relayout request is
\* pending in the event loop.
C1_Witness ==
    /\ relayouts = 1
    /\ IsSome(current_dragging)
    /\ IsSome(cursor_reference.cursor_selections)

\* C2: MouseDown(event, id) sets the drag flag to the event's coordinates,
\* the CursorReference id to Some(id) and cursor_position to Some(those
\* coordinates), and clears every highlight; rope, cursor and
\* cursor_selections are unchanged.
C2_MouseDownEffect ==
    [][(ClickHandled /\ Head(click_channel).kind = "MouseDown") =>
          LET ev == Head(click_channel)
          IN  /\ current_dragging' = Some(ev.coords)
              /\ cursor_reference'.id = Some(ev.id)
              /\ cursor_reference'.cursor_position = Some(as_f32(ev.coords))
              /\ \A id \in PointerIds : highlights(editor', id) = None
              /\ editor'.highlights = NoHighlights
              /\ editor'.rope = editor.rope
              /\ cursor_as_tuple(editor') = cursor_as_tuple(editor)
              /\ cursor_reference'.cursor_selections =
                     cursor_reference.cursor_selections]_vars

\* A MouseDown has been handled while a selection request of the previous
\* drag was still pending.
C2_Witness ==
    /\ IsSome(current_dragging)
    /\ cursor_reference.cursor_position = Some(as_f32(Unwrap(current_dragging)))
    /\ IsSome(cursor_reference.id)
    /\ IsSome(cursor_reference.cursor_selections)
    /\ editor.highlights = NoHighlights

\* C3: a MouseOver during a drag sets cursor_selections to the pair (start
\* of the drag, coordinates of the event), both converted with to_usize,
\* and id to Some(id); outside a drag it changes neither the
\* CursorReference, nor the drag flag, nor the editor.  The drag flag is
\* the coordinates of the last MouseDown since the last Click: only a
\* MouseDown sets it, only a Click clears it.
C3_MouseOverOnlyWhileDragging ==
    [][/\ (ClickHandled /\ Head(click_channel).kind = "MouseOver") =>
            LET ev == Head(click_channel)
            IN  IF IsSome(current_dragging)
                THEN /\ cursor_reference'.cursor_selections =
                            Some(<<to_usize(Unwrap(current_dragging)),
                                   to_usize(ev.coords)>>)
                     /\ cursor_reference'.id = Some(ev.id)
                     /\ current_dragging' = current_dragging
                ELSE UNCHANGED <<cursor_reference, current_dragging, editor>>
       /\ (ClickHandled /\ Head(click_channel).kind = "Click") =>
            current_dragging' = None
       /\ current_dragging' # current_dragging =>
            /\ ClickHandled
            /\ Head(click_channel).kind \in {"MouseDown", "Click"}]_vars

\* A MouseOver of a drag has posted a selection request whose start differs
\* from its end.
C3_Witness ==
    /\ IsSome(current_dragging)
    /\ IsSome(cursor_reference.cursor_selections)
    /\ LET sel == Unwrap(cursor_reference.cursor_selections)
       IN  /\ sel[1] = to_usize(Unwrap(current_dragging))
           /\ sel[1] # sel[2]


\* The column the mode resolves a response to, before clamping.
ResolvedRow(rope, m, position, id) ==
    IF m = MultipleLinesSingleEditor THEN char_to_line(rope, position) ELSE id

ResolvedCol(rope, m, position, id) ==
    IF m = MultipleLinesSingleEditor
    THEN position - line_to_char(rope, ResolvedRow(rope, m, position, id))
    ELSE position

CursorPositionHandled ==
    CursorHandled /\ Head(cursor_channels).kind = "CursorPosition"

\* C4: a CursorPosition{position, id} response moves the cursor to the row
\* char_to_line(position) and the column position - line_to_char(row) in
\* MultipleLinesSingleEditor, and to the row id and the column position in
\* SingleLineMultipleEditors (the column as far as the line reaches).
\* {3, 2} in SingleLineMultipleEditors gives (row 2, col 3); offset 5 on
\* the lines "abc", "de" in MultipleLinesSingleEditor gives (row 1, col 1).
C4_ModeDispatch ==
    [][CursorPositionHandled =>
          LET msg == Head(cursor_channels)
              row == ResolvedRow(editor.rope, mode, msg.position, msg.id)
              col == ResolvedCol(editor.rope, mode, msg.position, msg.id)
          IN  /\ editor'.row = row
              /\ col <= LineLen(editor.rope, row) => editor'.col = col
              /\ mode = SingleLineMultipleEditors => editor'.row = msg.id
              /\ (mode = SingleLineMultipleEditors
                    /\ msg.position = 3 /\ msg.id = 2
                    /\ LineLen(editor.rope, 2) >= 3) =>
                     cursor_as_tuple(editor') = <<3, 2>>
              /\ (mode = MultipleLinesSingleEditor
                    /\ editor.rope = <<"a", "b", "c", NL, "d", "e">>
                    /\ msg.position = 5) =>
                     cursor_as_tuple(editor') = <<1, 1>>]_vars

\* The response {3, 2} has been applied to the lines "hi", "", "xyz" in
\* SingleLineMultipleEditors.
C4_Witness ==
    /\ mode = SingleLineMultipleEditors
    /\ editor.rope = <<"h", "i", NL, NL, "x", "y", "z">>
    /\ cursor_as_tuple(editor) = <<3, 2>>
    /\ cursor_channels = <<>>
    /\ tasks["cursor"] = "running"

\* C5: after a CursorPosition response is applied, in either mode, the
\* column of the cursor is the smaller of the resolved column and the char
\* length of the line of the target row; it is never negative and never
\* beyond that length.
C5_ColumnClamped ==
    [][CursorPositionHandled =>
          LET msg == Head(cursor_channels)
              row == ResolvedRow(editor.rope, mode, msg.position, msg.id)
              col == ResolvedCol(editor.rope, mode, msg.position, msg.id)
          IN  /\ editor'.col = Min(col, LineLen(editor.rope, row))
              /\ editor'.col >= 0
              /\ editor'.col <= LineLen(editor'.rope, editor'.row)]_vars

\* A response has put the cursor at the end of a line that is not the
\* first one, in the mode where the column is the offset itself.
C5_Witness ==
    /\ mode = SingleLineMultipleEditors
    /\ cursor_channels = <<>>
    /\ tasks["cursor"] = "running"
    /\ editor.row > 0
    /\ editor.col > 0
    /\ editor.col = LineLen(editor.rope, editor.row)

\* C6: after a CursorPosition response is applied, on a line that ends
\* with a line terminator the column does not exceed the number of chars
\* before the terminator.
C6_NeverPastTerminator ==
    [][CursorPositionHandled =>
          LET l == Unwrap(line(editor'.rope, editor'.row))
          IN  EndsWithTerminator(l) => editor'.col <= Len(l) - 1]_vars

\* C6 in the mode of one editor of many lines: the resolved column of a
\* line that ends with a terminator is before the terminator.
C6_HoldsForMultipleLines ==
    [][(CursorPositionHandled /\ mode = MultipleLinesSingleEditor) =>
          LET l == Unwrap(line(editor'.rope, editor'.row))
          IN  EndsWithTerminator(l) => editor'.col <= Len(l) - 1]_vars

\* C7: once the component is torn down, every listener task terminates.
C7_ListenersTerminate ==
    (~mounted) ~> (\A t \in Listeners : tasks[t] # "running")

\* C7 for the two listeners that hold no sender of their own channel.
C7_ClickAndKeypressTerminate ==
    (~mounted) ~> (tasks["click"] # "running" /\ tasks["keypress"] # "running")

\* A response that names no line of the rope, or an offset past its end.
InvalidResponse(msg) ==
    \/ mode = SingleLineMultipleEditors /\ msg.id >= len_lines(editor.rope)
    \/ /\ msg.kind = "CursorPosition"
       /\ mode = MultipleLinesSingleEditor
       /\ msg.position > len_chars(editor.rope)
    \/ /\ msg.kind = "TextSelection"
       /\ (msg.from > len_chars(editor.rope) \/ msg.to > len_chars(editor.rope))

\* C8: the layout-response listener ignores an invalid response: the editor
\* is unchanged and the listener goes on to receive the next message.
C8_InvalidResponseIgnored ==
    [][(CursorReceived /\ InvalidResponse(Head(cursor_channels))) =>
          /\ editor' = editor
          /\ tasks'["cursor"] = "running"]_vars

\* C8 for CursorPosition alone, the response whose handling the listener
\* decides itself.
C8_InvalidCursorPositionIgnored ==
    [][(/\ CursorReceived
        /\ Head(cursor_channels).kind = "CursorPosition"
        /\ InvalidResponse(Head(cursor_channels))) =>
          /\ editor' = editor
          /\ tasks'["cursor"] = "running"]_vars

\* C9: the cursor is always on a line of the rope and within that line.
C9_CursorInBounds ==
    /\ editor.row >= 0
    /\ editor.row < len_lines(editor.rope)
    /\ editor.col >= 0
    /\ editor.col <= LineLen(editor.rope, editor.row)

\* C9 in the mode of one editor of many lines.
C9_HoldsForMultipleLines ==
    mode = MultipleLinesSingleEditor => C9_CursorInBounds

\* C10: when the layout-response listener has handled a message, the
\* CursorReference holds no pending request.
C10_RequestsClearedAfterResponse ==
    [][CursorHandled =>
          /\ cursor_reference'.cursor_position = None
          /\ cursor_reference'.cursor_selections = None]_vars

\* The listener has cleared the request of a pointer event that the layout
\* engine had not taken: the id of the event is still there.
C10_Witness ==
    /\ IsSome(cursor_reference.id)
    /\ cursor_reference.cursor_position = None
    /\ cursor_reference.cursor_selections = None
    /\ tasks["cursor"] = "running"

\* A handled TextSelection{from, to, id} makes (from, to) the range of id.
C11_TextSelectionSetsRange ==
    TextSelectionHandled =>
        LET msg == Head(cursor_channels)
        IN  highlights(editor', msg.id) = Some(<<msg.from, msg.to>>)

\* A handled Click clears the drag flag and nothing else.
C11_ReleaseClearsOnlyDragFlag ==
    ReleaseHandled =>
        /\ current_dragging' = None
        /\ editor' = editor
        /\ cursor_reference' = cursor_reference

\* C11: the TextSelection{from, to, id} response of a drag makes
\* highlights(id) exactly (from, to); the Click that follows clears only
\* the drag flag; and once the drag is released the range of an id changes
\* only by an unhighlight (a key), a new MouseDown or a cursor move.
C11_HighlightSurvivesRelease ==
    [][/\ C11_TextSelectionSetsRange
       /\ C11_ReleaseClearsOnlyDragFlag
       /\ \A id \in EditorIds :
             (/\ current_dragging = None
              /\ IsSome(highlights(editor, id))
              /\ highlights(editor', id) # highlights(editor, id)) =>
                 \/ MouseDownHandled
                 \/ CursorPositionHandled
                 \/ KeypressHandled]_vars

\* C11 as the code has it: after the release the range also changes when
\* a TextSelection response for the same id, still in flight from the
\* drag, is handled.
C11_HighlightSurvivesReleaseOrReplaced ==
    [][/\ C11_TextSelectionSetsRange
       /\ C11_ReleaseClearsOnlyDragFlag
       /\ \A id \in EditorIds :
             (/\ current_dragging = None
              /\ IsSome(highlights(editor, id))
              /\ highlights(editor', id) # highlights(editor, id)) =>
                 \/ MouseDownHandled
                 \/ CursorPositionHandled
                 \/ KeypressHandled
                 \/ TextSelectionHandled /\ Head(cursor_channels).id = id]_vars

\* The drag has been released, all its events and responses are handled,
\* and the range its TextSelection set is still there.
C11_Witness ==
    /\ current_dragging = None
    /\ click_channel = <<>>
    /\ cursor_channels = <<>>
    /\ budget <= MaxDragSends - 3
    /\ \E id \in EditorIds : highlights(editor, id) = Some(<<0, MaxSel>>)

\* The editor a listener leaves after handling the message `msg` of its
\* channel over the editor `ed`.
AppliedPointer(ed, msg) ==
    IF msg.kind = "MouseDown" THEN unhighlight(ed) ELSE ed

AppliedResponse(ed, msg) ==
    IF msg.kind = "TextSelection"
    THEN highlight_text(ed, msg.from, msg.to, msg.id)
    ELSE editor_after_cursor_position(ed, mode, msg.position, msg.id)

\* C12: every step of the session is one listener handling the one oldest
\* message of its own channel: the rest of that channel keeps its order,
\* the other two channels are untouched, and the editor after the step is
\* the editor before it with that whole message applied (or the same
\* editor, when the handler panicked on the message).
C12_SequentialDraining ==
    [][\/ /\ click_channel # <<>>
          /\ click_channel' = Tail(click_channel)
          /\ UNCHANGED <<cursor_channels, keypress_channel>>
          /\ editor' = AppliedPointer(editor, Head(click_channel))
       \/ /\ cursor_channels # <<>>
          /\ cursor_channels' = Tail(cursor_channels)
          /\ UNCHANGED <<click_channel, keypress_channel>>
          /\ IF tasks'["cursor"] = "running"
             THEN editor' = AppliedResponse(editor, Head(cursor_channels))
             ELSE editor' = editor
       \/ /\ keypress_channel # <<>>
          /\ keypress_channel' = Tail(keypress_channel)
          /\ UNCHANGED <<click_channel, cursor_channels>>
          /\ IF tasks'["keypress"] = "running"
             THEN editor' = process_key(editor, Head(keypress_channel))
             ELSE editor' = editor]_vars

\* Three messages have been drained: MouseDown then Click on the pointer
\* channel, in that order, and the key 'a' on the keyboard channel.
C12_Witness ==
    /\ click_channel = <<>>
    /\ keypress_channel = <<>>
    /\ cursor_channels = <<>>
    /\ current_dragging = None
    /\ IsSome(cursor_reference.cursor_position)
    /\ editor.rope = <<"a">>
    /\ relayouts = 1

HelloWXorld == <<"h", "e", "l", "l", "o", NL, "w", "X", "o", "r", "l", "d">>

\* C13: in MultipleLinesSingleEditor on "hello\nworld" the CursorPosition
\* response of a MouseDown that carries offset 7 sets the cursor to (row 1,
\* col 1); the key 'X' handled after it gives the buffer "hello\nwXorld"
\* and the cursor (row 1, col 2).  In general a printable key handled after
\* a response inserts at the offset line_to_char(row) + col of the cursor
\* the response resolved to.
C13_ClickThenType ==
    [][/\ (/\ CursorPositionHandled
           /\ mode = MultipleLinesSingleEditor
           /\ editor.rope = HelloWorld
           /\ Head(cursor_channels).position = 7) =>
             cursor_as_tuple(editor') = <<1, 1>>
       /\ (/\ KeypressHandled
           /\ Head(keypress_channel) = "X"
           /\ mode = MultipleLinesSingleEditor
           /\ editor.rope = HelloWorld
           /\ cursor_as_tuple(editor) = <<1, 1>>) =>
             /\ editor'.rope = HelloWXorld
             /\ cursor_as_tuple(editor') = <<2, 1>>
       /\ (/\ KeypressHandled
           /\ Head(keypress_channel) = "X"
           /\ tasks'["keypress"] = "running") =>
             LET offset == line_to_char(editor.rope, editor.row) + editor.col
             IN  /\ Len(editor'.rope) = Len(editor.rope) + 1
                 /\ editor'.rope[offset + 1] = "X"
                 /\ SubSeq(editor'.rope, 1, offset)
                        = SubSeq(editor.rope, 1, offset)
                 /\ SubSeq(editor'.rope, offset + 2, Len(editor'.rope))
                        = SubSeq(editor.rope, offset + 1, Len(editor.rope))]_vars

\* The click has been resolved to offset 7 and the key 'X' typed after it.
C13_Witness ==
    /\ mode = MultipleLinesSingleEditor
    /\ editor.rope = HelloWXorld
    /\ cursor_as_tuple(editor) = <<2, 1>>
    /\ click_channel = <<>>
    /\ cursor_channels = <<>>
    /\ keypress_channel = <<>>

Nodes == 1..Len(focus_managers)

\* C14: the ids of the focus managers are pairwise distinct; before the
\* first focus() call no node is focused; and when the last call was
\* focus() on a node, that node is focused and no other is.
C14_FocusIsExclusive ==
    /\ \A n, m \in Nodes :
          n # m => focus_managers[n].id # focus_managers[m].id
    /\ last_call = None =>
          \A n \in Nodes : ~is_focused(focus_managers[n])
    /\ (IsSome(last_call) /\ Unwrap(last_call).op = "focus") =>
          \A n \in Nodes :
             is_focused(focus_managers[n]) <=> n = Unwrap(last_call).node

\* The first node was focused, then the third: the last call was focus()
\* on the third while two other nodes exist.
C14_Witness ==
    /\ Len(focus_managers) >= 3
    /\ last_call = Some([op |-> "focus", node |-> 3])
    /\ is_focused(focus_managers[3])
    /\ ~is_focused(focus_managers[1])
    /\ accessibility_id_counter > 3

\* C15: when the last call was unfocus(), on whichever node, no node is
\* focused or selected; no id of a focus manager is ACCESSIBILITY_ROOT_ID;
\* and a node is selected only if it is focused and the navigation mode is
\* Keyboard.
C15_UnfocusClearsFocus ==
    /\ (IsSome(last_call) /\ Unwrap(last_call).op = "unfocus") =>
          \A n \in Nodes :
             /\ ~is_focused(focus_managers[n])
             /\ ~is_selected(focus_managers[n])
    /\ \A n \in Nodes : focus_managers[n].id # ACCESSIBILITY_ROOT_ID
    /\ \A n \in Nodes :
          is_selected(focus_managers[n]) =>
             /\ focused_id = focus_managers[n].id
             /\ navigation_state = "Keyboard"
    /\ \A n \in Nodes, code \in KeyCodes :
          validate_keydown(focus_managers[n], code) =>
             is_selected(focus_managers[n])

\* unfocus() was called on the first node while the navigation mode is
\* Keyboard and another node exists: nothing is focused.
C15_Witness ==
    /\ Len(focus_managers) >= 2
    /\ last_call = Some([op |-> "unfocus", node |-> 1])
    /\ navigation_state = "Keyboard"
    /\ focused_id = ACCESSIBILITY_ROOT_ID

\* C16: a CursorPosition response whose resolved, clamped (col, row) is the
\* current cursor leaves the editor as it is, highlights included; any
\* other sets col and row to the resolved pair and clears every highlight
\* range, and leaves the rope alone.
C16_MovesOrChangesNothing ==
    [][CursorPositionHandled =>
          LET msg == Head(cursor_channels)
              row == ResolvedRow(editor.rope, mode, msg.position, msg.id)
              col == Min(ResolvedCol(editor.rope, mode, msg.position, msg.id),
                         LineLen(editor.rope, row))
          IN  IF <<col, row>> = cursor_as_tuple(editor)
              THEN editor' = editor
              ELSE /\ editor'.col = col
                   /\ editor'.row = row
                   /\ editor'.highlights = NoHighlights
                   /\ editor'.rope = editor.rope]_vars

\* A response that resolved to the place of the cursor has been handled:
\* the selection is still there.
C16_Witness ==
    /\ cursor_channels = <<>>
    /\ tasks["cursor"] = "running"
    /\ editor.highlights # NoHighlights
    /\ cursor_as_tuple(editor) # <<0, 0>>

\* C17: a pending cursor_position or cursor_selections request stays Some
\* until the layout engine reads it and emits its response: no other step
\* turns it into None.
C17_NoRequestLost ==
    [][/\ (/\ IsSome(cursor_reference.cursor_position)
           /\ cursor_reference'.cursor_position = None) => ResponseEmitted
       /\ (/\ IsSome(cursor_reference.cursor_selections)
           /\ cursor_reference'.cursor_selections = None) => ResponseEmitted]_vars

\* A MouseDown has been handled and no MouseOver of its drag since: the
\* request of the MouseDown is pending and there is no selection request.
\* (Whatever clears a selection request clears the position request with
\* it, and only a MouseDown posts a position request.)
NoMouseOverSinceMouseDown ==
    /\ IsSome(cursor_reference.cursor_position)
    /\ cursor_reference.cursor_selections = None

\* C18: from the handling of a MouseDown up to the next MouseOver of the
\* drag it starts, no editor id has a highlight range, whatever response
\* is handled meanwhile.
C18_MouseDownClearsSelectionForGood ==
    [][(NoMouseOverSinceMouseDown /\ ~MouseOverHandled) =>
          \A id \in EditorIds : highlights(editor', id) = None]_vars

\* C19: handling a pointer event changes neither the rope nor the cursor;
\* handling a layout response does not change the rope; a TextSelection
\* response does not change the cursor and changes the highlights only by
\* setting the range of its id; so the rope changes only when a key is
\* handled.
C19_OnlyKeysChangeText ==
    [][/\ ClickHandled =>
            /\ editor'.rope = editor.rope
            /\ cursor_as_tuple(editor') = cursor_as_tuple(editor)
       /\ CursorReceived => editor'.rope = editor.rope
       /\ TextSelectionHandled =>
            LET msg == Head(cursor_channels)
            IN  /\ cursor_as_tuple(editor') = cursor_as_tuple(editor)
                /\ highlights(editor', msg.id) = Some(<<msg.from, msg.to>>)
                /\ \A id \in EditorIds \ {msg.id} :
                      highlights(editor', id) = highlights(editor, id)
       /\ editor'.rope # editor.rope => KeypressHandled]_vars

\* A MouseDown, a MouseOver and their two responses have been handled, the
\* selection ending after the cursor: text and cursor are as they were at
\* the start.
C19_Witness ==
    /\ budget = MaxDragSends - 2
    /\ editor.rope = FullLine
    /\ cursor_as_tuple(editor) = <<0, 0>>
    /\ \E id \in EditorIds : highlights(editor, id) = Some(<<0, MaxSel>>)
    /\ click_channel = <<>>
    /\ cursor_channels = <<>>
    /\ keypress_channel = <<>>

====
